---- MODULE Spec2Model ----
(***************************************************************************)
(* Token usage estimation (app/services/token_usage.py) and the admin      *)
(* token inventory query (app/api/v1/admin.py, known through its tests).   *)
(*                                                                         *)
(* Python strings are sequences of code points (naturals), so that the     *)
(* ASCII test ord(ch) <= 0x7F, str.find, slicing and str.strip are         *)
(* computed on characters.  Indices are 0-based as in the source; Slice    *)
(* converts to the 1-based SubSeq.  Python values that may be None, a str  *)
(* or an int are records [t, s, n] tagged by t.                            *)
(***************************************************************************)
EXTENDS Integers, Sequences, FiniteSets, TLC

VARIABLES pc, args, result, output, start, reasoning_parts, cuts

vars == <<pc, args, result, output, start, reasoning_parts, cuts>>

\* locals of _split_think; unused (and unchanged) by the other functions
splitLocals == <<output, start, reasoning_parts, cuts>>

-----------------------------------------------------------------------------
(* Bounds of the checked input spaces *)

MaxLen == 4

MaxPieces == 5

MaxMsgs == 2

MaxParts == 2

MaxRecs == 2

-----------------------------------------------------------------------------
(* Python values and strings *)

PyNone == [t |-> "none", s |-> <<>>, n |-> 0]

PyStr(s) == [t |-> "str", s |-> s, n |-> 0]

PyInt(n) == [t |-> "int", s |-> <<>>, n |-> n]

\* bool(v): None, "" and 0 are falsy
Truthy(v) ==
    CASE v.t = "none" -> FALSE
      [] v.t = "str" -> v.s # <<>>
      [] v.t = "int" -> v.n # 0

\* `v or ""`, `v or 1`: the left operand when truthy, else the right one
PyOr(v, d) == IF Truthy(v) THEN v ELSE d

RECURSIVE Digits(_)
\* decimal digits of a natural, most significant first
Digits(n) == IF n < 10 THEN <<48 + n>> ELSE Digits(n \div 10) \o <<48 + (n % 10)>>

\* str(v)
Str(v) ==
    CASE v.t = "none" -> <<78, 111, 110, 101>>
      [] v.t = "str" -> v.s
      [] v.t = "int" -> IF v.n < 0 THEN <<45>> \o Digits(-v.n) ELSE Digits(v.n)

\* text[a:b] for 0 <= a, b
Slice(text, a, b) == SubSeq(text, a + 1, IF b > Len(text) THEN Len(text) ELSE b)

\* text.find(sub, from): lowest index >= from where sub occurs, else -1
Find(text, sub, from) ==
    LET hits == {i \in from..(Len(text) - Len(sub)) :
                    SubSeq(text, i + 1, i + Len(sub)) = sub}
    IN  IF hits = {} THEN -1
        ELSE CHOOSE i \in hits : \A j \in hits : i <= j

RECURSIVE Join(_, _)
\* sep.join(parts)
Join(sep, parts) ==
    IF parts = <<>> THEN <<>>
    ELSE IF Len(parts) = 1 THEN parts[1]
    ELSE parts[1] \o sep \o Join(sep, Tail(parts))

NL == <<10>>

\* ch.isspace() for the characters str.strip() removes
IsSpace(ch) ==
    \/ ch \in 9..13
    \/ ch \in 28..32
    \/ ch \in {133, 160, 5760, 8232, 8233, 8239, 8287, 12288}
    \/ ch \in 8192..8202

\* bool(t.strip()): some character is not whitespace
StripNonEmpty(text) == \E i \in 1..Len(text) : ~IsSpace(text[i])

\* strings of length 0..n over an alphabet
RECURSIVE StringsUpTo(_, _)
StringsUpTo(alphabet, n) ==
    IF n = 0 THEN {<<>>}
    ELSE LET shorter == StringsUpTo(alphabet, n - 1)
         IN  shorter \cup {Append(w, c) : w \in {x \in shorter : Len(x) = n - 1},
                                          c \in alphabet}

RECURSIVE Flatten(_)
\* concatenation of a sequence of strings
Flatten(pieces) ==
    IF pieces = <<>> THEN <<>> ELSE Head(pieces) \o Flatten(Tail(pieces))

Ok(v) == [t |-> "ok", v |-> v]

Raise(exc) == [t |-> "raise", v |-> exc]

Pending == [t |-> "pending", v |-> 0]

-----------------------------------------------------------------------------
(* _count_tokens *)

AsciiMax == 127

RECURSIVE CountChars(_, _, _)
\* the for loop of _count_tokens: <<ascii_count, non_ascii>> after the
\* characters from index i on
CountChars(text, i, acc) ==
    IF i > Len(text) THEN acc
    ELSE IF text[i] <= AsciiMax
         THEN CountChars(text, i + 1, <<acc[1] + 1, acc[2]>>)
         ELSE CountChars(text, i + 1, <<acc[1], acc[2] + 1>>)

\* variant: floor instead of ceiling
CountResultBug(c) == c[1] \div 4 + c[2]

CountResult(c) == (c[1] + 3) \div 4 + c[2]

\* _count_tokens(text) for text a str or None
_count_tokens(text) ==
    IF ~Truthy(text) THEN 0
    ELSE CountResult(CountChars(text.s, 1, <<0, 0>>))

\* 'a', ' ', DEL (0x7F), 0x80, e-acute, a CJK character
CountAlphabet == {97, 32, 127, 128, 233, 20013}

CountInputs == {PyNone} \cup {PyStr(w) : w \in StringsUpTo(CountAlphabet, MaxLen)}

InitCount ==
    /\ pc = "call"
    /\ args \in {[text |-> x] : x \in CountInputs}
    /\ result = Pending
    /\ output = <<>> /\ start = 0 /\ reasoning_parts = <<>> /\ cuts = <<>>

CountTokens ==
    /\ pc = "call"
    /\ result' = Ok(_count_tokens(args.text))
    /\ pc' = "done"
    /\ UNCHANGED <<args, splitLocals>>

NextCount == CountTokens

SpecCount == InitCount /\ [][NextCount]_vars

\* C1: _count_tokens returns ceil(a / 4) + n, a the number of characters with
\* code point <= 0x7F and n the number of the others; 0 for "" and None.
\* ceil(a / 4) is stated as the least k with 4 * k >= a.
C1_CountFormula ==
    pc = "done" =>
        LET text == args.text.s
            a == Cardinality({i \in 1..Len(text) : text[i] <= 127})
            n == Len(text) - a
            ceil4 == CHOOSE k \in 0..a : 4 * k >= a /\ \A j \in 0..a : 4 * j >= a => k <= j
        IN  /\ result.t = "ok"
            /\ result.v = ceil4 + n
            /\ (args.text.t = "none" \/ text = <<>>) => result.v = 0
            /\ (n = 0) => 4 * result.v >= Len(text) /\ 4 * result.v < Len(text) + 4
            /\ (a = 0) => result.v = Len(text)

\* a mixed string whose ASCII part is not a multiple of four has been counted
C1_Witness ==
    /\ pc = "done"
    /\ args.text.t = "str"
    /\ Len(args.text.s) = 3
    /\ \E i \in 1..3 : args.text.s[i] > 127
    /\ \E i \in 1..3 : args.text.s[i] = 127
    /\ result = Ok(2)

-----------------------------------------------------------------------------
(* _split_think *)

\* "<think>"
OPEN == <<60, 116, 104, 105, 110, 107, 62>>

\* "</think>"
CLOSE == <<60, 47, 116, 104, 105, 110, 107, 62>>

\* One pass of the `while True` body on the locals st = [output, start,
\* reasoning_parts]: s and e as the two find calls compute them.
ScanS(st) == Find(st.output, OPEN, st.start)

ScanE(st) == Find(st.output, CLOSE, ScanS(st) + 7)

\* neither `break` is taken
PairFound(st) == ScanS(st) >= 0 /\ ScanE(st) >= 0

\* variant: the span is recorded but not cut out of output
RemoveSpanKeep(st) ==
    [output |-> st.output,
     start |-> ScanS(st),
     reasoning_parts |-> Append(st.reasoning_parts,
                                Slice(st.output, ScanS(st) + 7, ScanE(st)))]

\* variant: the scan resumes after the span's old end
RemoveSpanSkip(st) ==
    [output |-> Slice(st.output, 0, ScanS(st))
                    \o Slice(st.output, ScanE(st) + 8, Len(st.output)),
     start |-> ScanE(st) + 8,
     reasoning_parts |-> Append(st.reasoning_parts,
                                Slice(st.output, ScanS(st) + 7, ScanE(st)))]

\* variant: the scan resumes from the beginning
RemoveSpanRestart(st) ==
    [output |-> Slice(st.output, 0, ScanS(st))
                    \o Slice(st.output, ScanE(st) + 8, Len(st.output)),
     start |-> 0,
     reasoning_parts |-> Append(st.reasoning_parts,
                                Slice(st.output, ScanS(st) + 7, ScanE(st)))]

\* lines 34-36: record the enclosed text, cut the span, re-scan from s
RemoveSpan(st) ==
    [output |-> Slice(st.output, 0, ScanS(st))
                    \o Slice(st.output, ScanE(st) + 8, Len(st.output)),
     start |-> ScanS(st),
     reasoning_parts |-> Append(st.reasoning_parts,
                                Slice(st.output, ScanS(st) + 7, ScanE(st)))]

RECURSIVE SplitLoop(_)
\* the whole loop, run to its break
SplitLoop(st) == IF PairFound(st) THEN SplitLoop(RemoveSpan(st)) ELSE st

\* _split_think(text) for text a str or None: <<reasoning, visible>>
_split_think(text) ==
    IF ~Truthy(text) THEN <<(<<>>), (<<>>)>>
    ELSE LET st == SplitLoop([output |-> text.s, start |-> 0,
                              reasoning_parts |-> <<>>])
         IN  <<Join(NL, st.reasoning_parts), st.output>>

\* "<think>", "</think>", "<thi", "nk>", "</thi"
SplitPieces == {OPEN, CLOSE, <<60, 116, 104, 105>>, <<110, 107, 62>>,
                <<60, 47, 116, 104, 105>>}

SplitInputs ==
    {PyNone} \cup {PyStr(Flatten(w)) : w \in StringsUpTo(SplitPieces, MaxPieces)}

InitSplit ==
    /\ pc = "call"
    /\ args \in {[text |-> x] : x \in SplitInputs}
    /\ result = Pending
    /\ output = <<>> /\ start = 0 /\ reasoning_parts = <<>> /\ cuts = <<>>

locals == [output |-> output, start |-> start, reasoning_parts |-> reasoning_parts]

\* lines 22-26: the early return, or the locals' initial values
SplitEnter ==
    /\ pc = "call"
    /\ IF ~Truthy(args.text)
       THEN /\ result' = Ok(<<(<<>>), (<<>>)>>)
            /\ pc' = "done"
            /\ UNCHANGED <<output, start, reasoning_parts>>
       ELSE /\ output' = args.text.s
            /\ start' = 0
            /\ reasoning_parts' = <<>>
            /\ pc' = "loop"
            /\ UNCHANGED result
    /\ UNCHANGED <<args, cuts>>

\* lines 27-36: an iteration that takes neither break.  cuts is a history
\* variable: the offsets s at which spans were cut out of output.
SplitIter ==
    /\ pc = "loop"
    /\ PairFound(locals)
    /\ output' = RemoveSpan(locals).output
    /\ start' = RemoveSpan(locals).start
    /\ reasoning_parts' = RemoveSpan(locals).reasoning_parts
    /\ cuts' = Append(cuts, ScanS(locals))
    /\ UNCHANGED <<pc, args, result>>

\* lines 29-33 and 37: a break, then the return
SplitReturn ==
    /\ pc = "loop"
    /\ ~PairFound(locals)
    /\ result' = Ok(<<Join(NL, reasoning_parts), output>>)
    /\ pc' = "done"
    /\ UNCHANGED <<args, splitLocals>>

NextSplit == SplitEnter \/ SplitIter \/ SplitReturn

SpecSplit == InitSplit /\ [][NextSplit]_vars

(* Reference semantics of C8, on the ORIGINAL text: the spans found by
   scanning left to right, each opening marker paired with the nearest
   closing marker after it, the scan resuming after the pair. *)
RECURSIVE RefSpans(_, _)
RefSpans(text, from) ==
    LET opens == {i \in from..(Len(text) - 7) : SubSeq(text, i + 1, i + 7) = OPEN}
    IN  IF opens = {} THEN <<>>
        ELSE LET s == CHOOSE i \in opens : \A j \in opens : i <= j
                 closes == {i \in (s + 7)..(Len(text) - 8) :
                               SubSeq(text, i + 1, i + 8) = CLOSE}
             IN  IF closes = {} THEN <<>>
                 ELSE LET e == CHOOSE i \in closes : \A j \in closes : i <= j
                      IN  <<[s |-> s, e |-> e]>> \o RefSpans(text, e + 8)

\* the characters of text (1-based positions) outside every span
RefVisible(text, spans) ==
    LET keep(i) == \A k \in 1..Len(spans) : ~(spans[k].s < i /\ i <= spans[k].e + 8)
        F[i \in 0..Len(text)] ==
            IF i = 0 THEN <<>>
            ELSE IF keep(i) THEN Append(F[i - 1], text[i]) ELSE F[i - 1]
    IN  F[Len(text)]

RefReasoning(text, spans) ==
    LET G[k \in 0..Len(spans)] ==
            IF k = 0 THEN <<>>
            ELSE LET inner == SubSeq(text, spans[k].s + 8, spans[k].e)
                 IN  IF k = 1 THEN inner ELSE G[k - 1] \o <<10>> \o inner
    IN  G[Len(spans)]

\* C8: _split_think returns (reasoning, visible): pairing, left to right, each
\* "<think>" with the nearest following "</think>", reasoning is the enclosed
\* texts joined by newline and visible is the input without those spans; an
\* unmatched opening marker and all after it stay in visible; None and ""
\* give ("", "").
C8_SplitMatchesScan ==
    pc = "done" =>
        LET text == args.text.s
            spans == RefSpans(text, 0)
        IN  /\ result.t = "ok"
            /\ result.v[1] = RefReasoning(text, spans)
            /\ result.v[2] = RefVisible(text, spans)
            /\ (args.text.t = "none" \/ text = <<>>) => result.v = <<(<<>>), (<<>>)>>

\* two spans were cut, and an unmatched "<think>" is left in the visible text
C8_Witness ==
    /\ pc = "done"
    /\ Len(cuts) = 2
    /\ Find(result.v[2], OPEN, 0) >= 0
    /\ Find(result.v[1], NL, 0) >= 0

\* C9: the scan loop terminates: an iteration that does not exit strictly
\* shortens the working string (a natural-number variant) and never moves the
\* re-scan offset backwards, and a call that has not returned can always take
\* its next step.
C9_LoopTerminates ==
    /\ [][(pc = "loop" /\ pc' = "loop") =>
            (Len(output') < Len(output) /\ start' >= start /\ start' <= Len(output'))]_vars
    /\ [](pc # "done" => ENABLED NextSplit)

\* an iteration has run whose cut joined two fragments into a marker
C9_Witness ==
    /\ pc = "loop"
    /\ Len(cuts) = 1
    /\ \E i \in 0..Len(output) :
           i < cuts[1] /\ i + 7 <= Len(output) /\ SubSeq(output, i + 1, i + 7) = OPEN

\* an opening marker at offset i of text with a closing marker after it
OpenThenClose(text, i) ==
    /\ i + 7 <= Len(text)
    /\ SubSeq(text, i + 1, i + 7) = OPEN
    /\ Find(text, CLOSE, i + 7) >= 0

\* C10 as stated: the visible text holds no "<think>" followed by "</think>",
\* and splitting it again returns ("", visible).
C10_VisibleHasNoSpan ==
    pc = "done" =>
        /\ \A i \in 0..Len(result.v[2]) : ~OpenThenClose(result.v[2], i)
        /\ _split_think(PyStr(result.v[2])) = <<(<<>>), result.v[2]>>

\* C10 amended: an opening marker of the visible text that is followed by a
\* closing marker lies across an offset where a span was cut out (it was
\* formed by joining the text on both sides of the cut); when there is none,
\* splitting the visible text again returns ("", visible).
C10_SurvivorsStraddleCut ==
    pc = "done" =>
        LET visible == result.v[2]
            survivors == {i \in 0..Len(visible) : OpenThenClose(visible, i)}
        IN  /\ \A i \in survivors : \E k \in 1..Len(cuts) : i < cuts[k] /\ cuts[k] < i + 7
            /\ survivors = {} =>
                   _split_think(PyStr(visible)) = <<(<<>>), visible>>

\* spans were cut and no marker pair is left in the visible text
C10_Witness ==
    /\ pc = "done"
    /\ Len(cuts) = 2
    /\ cuts[1] < cuts[2]
    /\ \A i \in 0..Len(result.v[2]) : ~OpenThenClose(result.v[2], i)
    /\ result.v[2] # <<>>

-----------------------------------------------------------------------------
(* estimate_prompt_tokens *)

(* A content part is [t, type, text]: t = "dict" for a mapping (type and text
   are its item.get("type") and item.get("text"), None when absent), another
   t for an element that is no mapping.  A content is a Python value
   [t, s, n, items] with t = "list" for a sequence of parts.  A message is
   [t, content]: t = "dict" for a mapping whose msg.get("content") is
   content, another t for an element that is no mapping. *)

\* "text"
TEXT == <<116, 101, 120, 116>>

Part(type, text) == [t |-> "dict", type |-> type, text |-> text]

ContentOf(v) == [t |-> v.t, s |-> v.s, n |-> v.n, items |-> <<>>]

ContentList(items) == [t |-> "list", s |-> <<>>, n |-> 0, items |-> items]

Msg(content) == [t |-> "dict", content |-> content]

NotAMapping(tag) == [t |-> tag, content |-> ContentOf(PyNone)]

\* line 48: t = str(item.get("text") or "")
PartText(item) == Str(PyOr(item.text, PyStr(<<>>)))

RECURSIVE ListParts(_, _)
\* lines 46-50: the texts appended for a list content, from element i on
ListParts(items, i) ==
    IF i > Len(items) THEN <<>>
    ELSE IF /\ items[i].t = "dict"
            /\ items[i].type = PyStr(TEXT)
            /\ StripNonEmpty(PartText(items[i]))
         THEN <<PartText(items[i])>> \o ListParts(items, i + 1)
         ELSE ListParts(items, i + 1)

\* lines 44-54: the texts one message appends to text_parts
MsgParts(msg) ==
    IF msg.content.t = "list" THEN ListParts(msg.content.items, 1)
    ELSE LET t == Str(PyOr(msg.content, PyStr(<<>>)))
         IN  IF StripNonEmpty(t) THEN <<t>> ELSE <<>>

RECURSIVE TextParts(_, _)
\* lines 43-54: text_parts after the messages from index i on
TextParts(msgs, i) ==
    IF i > Len(msgs) THEN <<>> ELSE MsgParts(msgs[i]) \o TextParts(msgs, i + 1)

RECURSIVE SumCounts(_)
SumCounts(parts) ==
    IF parts = <<>> THEN 0
    ELSE _count_tokens(PyStr(Head(parts))) + SumCounts(Tail(parts))

\* variant: each fragment counted on its own
TextTokensPerPart(text_parts) == SumCounts(text_parts)

\* line 55
TextTokens(text_parts) == _count_tokens(PyStr(Join(NL, text_parts)))

\* lines 56-60: image_tokens is the local set on line 42 and never changed
PromptReport(text_tokens) ==
    [text_tokens |-> text_tokens,
     image_tokens |-> 0,
     prompt_tokens |-> text_tokens + 0]

\* estimate_prompt_tokens(messages), messages = [t, n, items]: a list of
\* messages, None, or an int.  `for msg in messages or []` raises TypeError
\* for a non-zero int; msg.get raises AttributeError at a message that is no
\* mapping.
estimate_prompt_tokens(messages) ==
    IF messages.t = "int" /\ messages.n # 0 THEN Raise("TypeError")
    ELSE LET msgs == IF messages.t = "list" THEN messages.items ELSE <<>>
         IN  IF \E i \in 1..Len(msgs) : msgs[i].t # "dict"
             THEN Raise("AttributeError")
             ELSE Ok(PromptReport(TextTokens(TextParts(msgs, 1))))

MsgList(items) == [t |-> "list", n |-> 0, items |-> items]

MsgNone == [t |-> "none", n |-> 0, items |-> <<>>]

MsgInt(n) == [t |-> "int", n |-> n, items |-> <<>>]

\* a text part "hi", a blank text part " \n", an image part carrying a text
PartPool ==
    {Part(PyStr(TEXT), PyStr(<<104, 105>>)),
     Part(PyStr(TEXT), PyStr(<<32, 10>>)),
     Part(PyStr(<<105, 109, 103>>), PyStr(<<122, 122>>))}

\* None, "abcde", " \n", e-acute and a CJK character
ScalarContents ==
    {ContentOf(PyNone),
     ContentOf(PyStr(<<97, 98, 99, 100, 101>>)),
     ContentOf(PyStr(<<32, 10>>)),
     ContentOf(PyStr(<<233, 20013>>))}

MessagePool ==
    {Msg(c) : c \in ScalarContents}
        \cup {Msg(ContentList(l)) : l \in StringsUpTo(PartPool, MaxParts)}
        \cup {NotAMapping("none"), NotAMapping("str")}

PromptInputs ==
    {MsgNone, MsgInt(0), MsgInt(5)}
        \cup {MsgList(l) : l \in StringsUpTo(MessagePool, MaxMsgs)}

InitPrompt ==
    /\ pc = "call"
    /\ args \in {[messages |-> m] : m \in PromptInputs}
    /\ result = Pending
    /\ output = <<>> /\ start = 0 /\ reasoning_parts = <<>> /\ cuts = <<>>

EstimatePromptTokens ==
    /\ pc = "call"
    /\ result' = estimate_prompt_tokens(args.messages)
    /\ pc' = "done"
    /\ UNCHANGED <<args, splitLocals>>

NextPrompt == EstimatePromptTokens

SpecPrompt == InitPrompt /\ [][NextPrompt]_vars

\* every message is a mapping whose content is absent, a string, or a sequence
\* of mappings with a string (or absent) type and text
ExpectedShape(messages) ==
    /\ messages.t \in {"list", "none"}
    /\ \A i \in 1..Len(messages.items) :
          LET m == messages.items[i]
          IN  /\ m.t = "dict"
              /\ m.content.t \in {"none", "str", "list"}
              /\ \A j \in 1..Len(m.content.items) :
                    LET it == m.content.items[j]
                    IN  it.t = "dict" /\ it.type.t \in {"none", "str"}
                                      /\ it.text.t \in {"none", "str"}

(* Reference for C5: the candidate texts of all messages in input order, the
   blank ones dropped, a newline put between consecutive ones. *)
RefCandidates(msgs) ==
    LET of(m) == IF m.content.t = "list"
                 THEN [j \in 1..Len(m.content.items) |->
                          IF m.content.items[j].type.s = TEXT
                          THEN m.content.items[j].text.s ELSE <<>>]
                 ELSE <<m.content.s>>
        F[i \in 0..Len(msgs)] == IF i = 0 THEN <<>> ELSE F[i - 1] \o of(msgs[i])
    IN  F[Len(msgs)]

RefBlank(text) == \A i \in 1..Len(text) : IsSpace(text[i])

RefJoined(frags) ==
    LET F[i \in 0..Len(frags)] ==
            IF i = 0 THEN <<>>
            ELSE IF i = 1 THEN frags[1] ELSE F[i - 1] \o <<10>> \o frags[i]
    IN  F[Len(frags)]

RefCount(text) ==
    LET a == Cardinality({i \in 1..Len(text) : text[i] <= 127})
    IN  (IF a % 4 = 0 THEN a \div 4 ELSE a \div 4 + 1) + (Len(text) - a)

\* C5: estimate_prompt_tokens collects, in input order, the text of each
\* "text" part of a structured content and each plain-string content, keeps
\* the fragments that are non-empty after trimming, and counts the fragments
\* joined by newlines once; image_tokens is 0 and prompt_tokens is
\* text_tokens + image_tokens.
C5_PromptFromJoinedFragments ==
    (pc = "done" /\ ExpectedShape(args.messages)) =>
        LET frags == SelectSeq(RefCandidates(args.messages.items),
                               LAMBDA x : ~RefBlank(x))
        IN  /\ result.t = "ok"
            /\ result.v.text_tokens = RefCount(RefJoined(frags))
            /\ result.v.image_tokens = 0
            /\ result.v.prompt_tokens = result.v.text_tokens + result.v.image_tokens

\* a structured and a plain message gave two fragments, one candidate was
\* dropped, and the joined count differs from the per-fragment sum
C5_Witness ==
    /\ pc = "done"
    /\ ExpectedShape(args.messages)
    /\ Len(args.messages.items) = 2
    /\ args.messages.items[1].content.t = "list"
    /\ args.messages.items[2].content.t = "str"
    /\ Len(TextParts(args.messages.items, 1)) = 2
    /\ Len(RefCandidates(args.messages.items)) = 3
    /\ result.t = "ok"
    /\ result.v.text_tokens # SumCounts(TextParts(args.messages.items, 1))

-----------------------------------------------------------------------------
(* build_chat_usage *)

\* variant: reasoning tokens left out of the total
ChatReportNoReasoning(prompt, completion_text_tokens, reasoning_tokens) ==
    [prompt_tokens |-> prompt.prompt_tokens,
     completion_tokens |-> completion_text_tokens + reasoning_tokens,
     total_tokens |-> prompt.prompt_tokens + completion_text_tokens,
     prompt_tokens_details |->
         [cached_tokens |-> 0, text_tokens |-> prompt.text_tokens,
          audio_tokens |-> 0, image_tokens |-> prompt.image_tokens],
     completion_tokens_details |->
         [text_tokens |-> completion_text_tokens, audio_tokens |-> 0,
          reasoning_tokens |-> reasoning_tokens],
     raw |->
         [reasoning_tokens |-> reasoning_tokens, cached_tokens |-> 0,
          input_tokens |-> prompt.prompt_tokens,
          output_tokens |-> completion_text_tokens + reasoning_tokens]]

\* lines 68-92; raw is the "_raw" entry
ChatReport(prompt, completion_text_tokens, reasoning_tokens) ==
    [prompt_tokens |-> prompt.prompt_tokens,
     completion_tokens |-> completion_text_tokens + reasoning_tokens,
     total_tokens |-> prompt.prompt_tokens
                          + (completion_text_tokens + reasoning_tokens),
     prompt_tokens_details |->
         [cached_tokens |-> 0, text_tokens |-> prompt.text_tokens,
          audio_tokens |-> 0, image_tokens |-> prompt.image_tokens],
     completion_tokens_details |->
         [text_tokens |-> completion_text_tokens, audio_tokens |-> 0,
          reasoning_tokens |-> reasoning_tokens],
     raw |->
         [reasoning_tokens |-> reasoning_tokens, cached_tokens |-> 0,
          input_tokens |-> prompt.prompt_tokens,
          output_tokens |-> completion_text_tokens + reasoning_tokens]]

\* build_chat_usage(messages, completion_text).  An exception of
\* estimate_prompt_tokens propagates; `completion_text or ""` that is no str
\* makes _split_think raise AttributeError at output.find.
build_chat_usage(messages, completion_text) ==
    LET prompt == estimate_prompt_tokens(messages)
        text == PyOr(completion_text, PyStr(<<>>))
    IN  IF prompt.t = "raise" THEN prompt
        ELSE IF text.t # "str" THEN Raise("AttributeError")
        ELSE LET split == _split_think(text)
             IN  Ok(ChatReport(prompt.v, _count_tokens(PyStr(split[2])),
                               _count_tokens(PyStr(split[1]))))

\* "abcde", [text "hi", image part], None content, and a message that is None
ChatMessagePool ==
    {Msg(ContentOf(PyStr(<<97, 98, 99, 100, 101>>))),
     Msg(ContentList(<<Part(PyStr(TEXT), PyStr(<<104, 105>>)),
                       Part(PyStr(<<105, 109, 103>>), PyNone)>>)),
     Msg(ContentOf(PyNone)),
     NotAMapping("none")}

ChatMessages ==
    {MsgNone} \cup {MsgList(l) : l \in StringsUpTo(ChatMessagePool, MaxMsgs)}

\* None, 0, 7, "", "ab", "<think>ab</think>", "<think>ab</think>" e-acute,
\* "ab<think>" e-acute "</think><think>ab</think>ab", "<think>ab", "ab</think>"
ChatCompletions ==
    {PyNone, PyInt(0), PyInt(7)}
        \cup {PyStr(Flatten(w)) :
                 w \in {<<>>,
                        <<(<<97, 98>>)>>,
                        <<OPEN, <<97, 98>>, CLOSE>>,
                        <<OPEN, <<97, 98>>, CLOSE, <<233>>>>,
                        <<(<<97, 98>>), OPEN, <<233>>, CLOSE, OPEN, <<97, 98>>,
                          CLOSE, <<97, 98>>>>,
                        <<OPEN, <<97, 98>>>>,
                        <<(<<97, 98>>), CLOSE>>}}

InitChat ==
    /\ pc = "call"
    /\ args \in {[messages |-> m, completion_text |-> c] :
                    m \in ChatMessages, c \in ChatCompletions}
    /\ result = Pending
    /\ output = <<>> /\ start = 0 /\ reasoning_parts = <<>> /\ cuts = <<>>

BuildChatUsage ==
    /\ pc = "call"
    /\ result' = build_chat_usage(args.messages, args.completion_text)
    /\ pc' = "done"
    /\ UNCHANGED <<args, splitLocals>>

NextChat == BuildChatUsage

SpecChat == InitChat /\ [][NextChat]_vars

\* C3: a report returned by build_chat_usage has completion_tokens ==
\* completion_tokens_details.text_tokens + .reasoning_tokens and total_tokens
\* == prompt_tokens + completion_tokens, every count a non-negative integer.
C3_ChatReportSums ==
    (pc = "done" /\ result.t = "ok") =>
        LET r == result.v
        IN  /\ r.completion_tokens = r.completion_tokens_details.text_tokens
                                       + r.completion_tokens_details.reasoning_tokens
            /\ r.total_tokens = r.prompt_tokens + r.completion_tokens
            /\ {r.prompt_tokens, r.completion_tokens, r.total_tokens,
                r.completion_tokens_details.text_tokens,
                r.completion_tokens_details.reasoning_tokens,
                r.prompt_tokens_details.text_tokens,
                r.prompt_tokens_details.image_tokens} \subseteq Nat

\* a report with prompt, visible and reasoning tokens all positive
C3_Witness ==
    /\ pc = "done"
    /\ result.t = "ok"
    /\ result.v.prompt_tokens > 0
    /\ result.v.completion_tokens_details.text_tokens > 0
    /\ result.v.completion_tokens_details.reasoning_tokens > 0

\* C4 as stated: estimate_prompt_tokens and build_chat_usage (which calls it)
\* never raise: whatever is missing, null or malformed in messages or in the
\* completion text, a report is returned, with a completion that is no string
\* counted as empty text.
C4_ChatNeverRaises ==
    pc = "done" =>
        /\ result.t = "ok"
        /\ (args.completion_text.t # "str") =>
               result.v.completion_tokens = 0

-----------------------------------------------------------------------------
(* build_image_usage *)

\* text.strip()
Strip(text) ==
    LET solid == {i \in 1..Len(text) : ~IsSpace(text[i])}
    IN  IF solid = {} THEN <<>>
        ELSE SubSeq(text, CHOOSE i \in solid : \A j \in solid : i <= j,
                          CHOOSE i \in solid : \A j \in solid : i >= j)

RECURSIVE DigitsValue(_, _)
\* the value of decimal digits, underscores skipped
DigitsValue(body, acc) ==
    IF body = <<>> THEN acc
    ELSE IF Head(body) = 95 THEN DigitsValue(Tail(body), acc)
    ELSE DigitsValue(Tail(body), 10 * acc + (Head(body) - 48))

\* int(text) for a str of ASCII characters: surrounding whitespace, an
\* optional sign, decimal digits with single underscores between them;
\* anything else raises ValueError
IntOfStr(text) ==
    LET w == Strip(text)
        signed == w # <<>> /\ w[1] \in {43, 45}
        body == IF signed THEN Tail(w) ELSE w
        valid == /\ body # <<>>
                 /\ \A i \in 1..Len(body) : body[i] \in 48..57 \/ body[i] = 95
                 /\ body[1] # 95 /\ body[Len(body)] # 95
                 /\ \A i \in 1..(Len(body) - 1) : ~(body[i] = 95 /\ body[i + 1] = 95)
    IN  IF ~valid THEN Raise("ValueError")
        ELSE IF signed /\ w[1] = 45 THEN Ok(-DigitsValue(body, 0))
        ELSE Ok(DigitsValue(body, 0))

\* int(v) for v an int or a str
PyIntOf(v) == IF v.t = "int" THEN Ok(v.n) ELSE IntOfStr(v.s)

\* lines 98-110; raw is the "_raw" entry
ImageReport(text_tokens, success) ==
    [total_tokens |-> text_tokens * success,
     input_tokens |-> text_tokens * success,
     output_tokens |-> 0,
     input_tokens_details |-> [text_tokens |-> text_tokens, image_tokens |-> 0],
     raw |-> [reasoning_tokens |-> 0, cached_tokens |-> 0,
              input_tokens |-> text_tokens * success, output_tokens |-> 0]]

\* build_image_usage(prompt, success_count): line 97 is
\* max(1, int(success_count or 1)), and int raises ValueError for a str that
\* is no integer literal
build_image_usage(prompt, success_count) ==
    LET text_tokens == _count_tokens(PyStr(Str(PyOr(prompt, PyStr(<<>>)))))
        parsed == PyIntOf(PyOr(success_count, PyInt(1)))
    IN  IF parsed.t = "raise" THEN parsed
        ELSE Ok(ImageReport(text_tokens, IF parsed.v > 1 THEN parsed.v ELSE 1))

ImagePrompts == {PyNone} \cup {PyStr(w) : w \in StringsUpTo({97, 233}, MaxLen)}

\* None (missing), the ints -2..3, and the strs "", "2", " 3 ", "-1", "1_0",
\* "abc", "2x"
ImageCounts ==
    {PyNone} \cup {PyInt(n) : n \in -2..3}
        \cup {PyStr(<<>>), PyStr(<<50>>), PyStr(<<32, 51, 32>>), PyStr(<<45, 49>>),
              PyStr(<<49, 95, 48>>), PyStr(<<97, 98, 99>>), PyStr(<<50, 120>>)}

InitImage ==
    /\ pc = "call"
    /\ args \in {[prompt |-> p, success_count |-> c] :
                    p \in ImagePrompts, c \in ImageCounts}
    /\ result = Pending
    /\ output = <<>> /\ start = 0 /\ reasoning_parts = <<>> /\ cuts = <<>>

BuildImageUsage ==
    /\ pc = "call"
    /\ result' = build_image_usage(args.prompt, args.success_count)
    /\ pc' = "done"
    /\ UNCHANGED <<args, splitLocals>>

NextImage == BuildImageUsage

SpecImage == InitImage /\ [][NextImage]_vars

\* the success count the claim charges: max(1, n) for a number n (given as an
\* int or as an integer literal), 1 for a missing or non-numeric value
ClaimedSuccess(c) ==
    LET n == IF c.t = "int" THEN c.n
             ELSE IF c.t = "str" /\ IntOfStr(c.s).t = "ok" THEN IntOfStr(c.s).v
             ELSE 1
    IN  IF n > 1 THEN n ELSE 1

\* C2 as stated: build_image_usage(p, n) returns a report with total_tokens ==
\* _count_tokens(p) * max(1, n) for every n; 0, negative, missing and
\* non-numeric n are clamped to 1 and never make the call fail.
C2_ImageTotalClamped ==
    pc = "done" =>
        /\ result.t = "ok"
        /\ result.v.total_tokens =
               _count_tokens(args.prompt) * ClaimedSuccess(args.success_count)

-----------------------------------------------------------------------------
(* Token inventory query: get_tokens_api of app/api/v1/admin.py.  The module
   is not among the sources; the query is modelled from the processing order
   of the design (flatten, filter by type, status, nsfw and search, count,
   paginate) and from the three tests of test_admin_tokens_list_pagination. *)

DefaultPage == 1

DefaultPerPage == 30

\* "all"
ALL == <<97, 108, 108>>

\* "nsfw": the marker looked for in a record's note
NsfwMarker == <<110, 115, 102, 119>>

\* "true", "false"
TRUE_S == <<116, 114, 117, 101>>

FALSE_S == <<102, 97, 108, 115, 101>>

\* "ssoBasic", "ssoSuper"
SsoBasic == <<115, 115, 111, 66, 97, 115, 105, 99>>

SsoSuper == <<115, 115, 111, 83, 117, 112, 101, 114>>

\* text.lower() on ASCII letters
Lower(text) ==
    [i \in 1..Len(text) |-> IF text[i] \in 65..90 THEN text[i] + 32 ELSE text[i]]

\* sub in text
Contains(text, sub) == Find(text, sub, 0) >= 0

\* text.startswith(prefix)
StartsWith(text, prefix) ==
    Len(prefix) <= Len(text) /\ SubSeq(text, 1, Len(prefix)) = prefix

\* step 1: the groups' records in group order, each tagged with its group
FlattenGroups(payload) ==
    [i \in 1..Len(payload.ssoBasic) |->
        [group |-> SsoBasic, rec |-> payload.ssoBasic[i]]]
    \o [i \in 1..Len(payload.ssoSuper) |->
        [group |-> SsoSuper, rec |-> payload.ssoSuper[i]]]

\* step 2: a category or a category prefix; unset or empty passes all
TypeMatches(token_type, x) ==
    ~Truthy(token_type) \/ StartsWith(x.group, token_type.s)

\* step 3: exact match when specified
StatusMatches(status, x) == ~Truthy(status) \/ x.rec.status = status.s

\* step 4: "true" keeps the records whose note carries the marker, "false"
\* those whose note does not; anything else passes all
NsfwMatches(nsfw, x) ==
    IF nsfw.t = "str" /\ nsfw.s = TRUE_S THEN Contains(Lower(x.rec.note), NsfwMarker)
    ELSE IF nsfw.t = "str" /\ nsfw.s = FALSE_S
         THEN ~Contains(Lower(x.rec.note), NsfwMarker)
    ELSE TRUE

\* step 5: case-insensitive substring of the token identifier
SearchMatches(search, x) ==
    ~Truthy(search) \/ Contains(Lower(x.rec.token), Lower(search.s))

\* variant: the status filter is skipped
KeepsIgnoringStatus(q, x) ==
    /\ TypeMatches(q.token_type, x)
    /\ NsfwMatches(q.nsfw, x)
    /\ SearchMatches(q.search, x)

Keeps(q, x) ==
    /\ TypeMatches(q.token_type, x)
    /\ StatusMatches(q.status, x)
    /\ NsfwMatches(q.nsfw, x)
    /\ SearchMatches(q.search, x)

\* steps 2-5 on the flattened sequence
FilterTokens(q, payload) ==
    SelectSeq(FlattenGroups(payload), LAMBDA x : Keeps(q, x))

\* per_page as given: "all", a positive integer (an int or a numeric str), or
\* the default when unset or unparsable
PerPageOf(v) ==
    IF v.t = "str" /\ v.s = ALL THEN PyStr(ALL)
    ELSE IF v.t = "int" /\ v.n >= 1 THEN PyInt(v.n)
    ELSE IF v.t = "str" /\ IntOfStr(v.s).t = "ok" /\ IntOfStr(v.s).v >= 1
         THEN PyInt(IntOfStr(v.s).v)
    ELSE PyInt(DefaultPerPage)

\* page clamped to at least 1, the default when unset
PageOf(v) == IF v.t = "int" THEN (IF v.n >= 1 THEN v.n ELSE 1) ELSE DefaultPage

\* variant: floor instead of ceiling, no minimum
PagesFloor(total, per_page) == total \div per_page

\* ceil(total / per_page) with a floor of 1
PagesOf(total, per_page) ==
    IF (total + per_page - 1) \div per_page >= 1
    THEN (total + per_page - 1) \div per_page
    ELSE 1

\* steps 6-7
get_tokens_api(q, payload) ==
    LET filtered == FilterTokens(q, payload)
        total == Len(filtered)
        per_page == PerPageOf(q.per_page)
        page == PageOf(q.page)
    IN  IF per_page.t = "str"
        THEN [items |-> filtered, total |-> total, page |-> 1,
              per_page |-> per_page, pages |-> 1]
        ELSE [items |-> Slice(filtered,
                              IF (page - 1) * per_page.n > total THEN total
                              ELSE (page - 1) * per_page.n,
                              page * per_page.n),
              total |-> total, page |-> page,
              per_page |-> per_page, pages |-> PagesOf(total, per_page.n)]

Rec(token, status, note) == [token |-> token, status |-> status, note |-> note]

\* "active", "expired"
ACTIVE == <<97, 99, 116, 105, 118, 101>>

EXPIRED == <<101, 120, 112, 105, 114, 101, 100>>

\* alpha (active, note "nsfw enabled"), beta (expired), Alps (active)
RecordPool ==
    {Rec(<<97, 108, 112, 104, 97>>, ACTIVE,
         <<110, 115, 102, 119, 32, 101, 110, 97, 98, 108, 101, 100>>),
     Rec(<<98, 101, 116, 97>>, EXPIRED, <<>>),
     Rec(<<65, 108, 112, 115>>, ACTIVE, <<>>)}

\* gamma (active), of the privileged group
Gamma == Rec(<<103, 97, 109, 109, 97>>, ACTIVE, <<>>)

\* "token-" i
BulkRecord(i) == Rec(<<116, 111, 107, 101, 110, 45>> \o Digits(i), ACTIVE, <<>>)

\* the 40 records of test_tokens_list_default_pagination
BulkPayload == [ssoBasic |-> [i \in 1..40 |-> BulkRecord(i - 1)], ssoSuper |-> <<>>]

Payloads ==
    {BulkPayload}
        \cup {[ssoBasic |-> b, ssoSuper |-> s] :
                 b \in StringsUpTo(RecordPool, MaxRecs), s \in {<<>>, <<Gamma>>}}

\* page unset, 0, 1, 2, 99; per_page unset, 1, 2, "all", "2", "x";
\* token_type unset, "sso", "ssoSuper"; status unset, "active";
\* nsfw unset, "true", "false"; search unset, "ALP"
Queries ==
    [page : {PyNone, PyInt(0), PyInt(1), PyInt(2), PyInt(99)},
     per_page : {PyNone, PyInt(1), PyInt(2), PyStr(ALL), PyStr(<<50>>),
                 PyStr(<<120>>)},
     token_type : {PyNone, PyStr(<<115, 115, 111>>), PyStr(SsoSuper)},
     status : {PyNone, PyStr(ACTIVE)},
     nsfw : {PyNone, PyStr(TRUE_S), PyStr(FALSE_S)},
     search : {PyNone, PyStr(<<65, 76, 80>>)}]

InitTokens ==
    /\ pc = "call"
    /\ args \in {[q |-> q, payload |-> p] : q \in Queries, p \in Payloads}
    /\ result = Pending
    /\ output = <<>> /\ start = 0 /\ reasoning_parts = <<>> /\ cuts = <<>>

GetTokensApi ==
    /\ pc = "call"
    /\ result' = Ok(get_tokens_api(args.q, args.payload))
    /\ pc' = "done"
    /\ UNCHANGED <<args, splitLocals>>

NextTokens == GetTokensApi

SpecTokens == InitTokens /\ [][NextTokens]_vars

\* C6: with per_page a positive integer (default 30; page default 1 and at
\* least 1) pages == max(1, ceil(total / per_page)) and items is the window
\* [(page-1)*per_page, page*per_page) of the filtered sequence, empty beyond
\* the last page with total and pages unchanged; with per_page "all" every
\* filtered record is returned, pages == 1 and per_page stays "all".
C6_Pagination ==
    pc = "done" =>
        LET r == result.v
            q == args.q
            filtered == FilterTokens(q, args.payload)
        IN  IF q.per_page = PyStr(ALL)
            THEN /\ r.items = filtered
                 /\ Len(r.items) = r.total
                 /\ r.pages = 1
                 /\ r.per_page = PyStr(ALL)
            ELSE LET pp == r.per_page.n
                     lo == (r.page - 1) * pp
                 IN  /\ r.per_page.t = "int"
                     /\ q.per_page.t = "int" => pp = q.per_page.n
                     /\ q.per_page.t = "none" => pp = 30
                     /\ q.page.t = "none" => r.page = 1
                     /\ q.page.t = "int" =>
                            r.page >= 1 /\ r.page >= q.page.n
                                /\ r.page \in {1, q.page.n}
                     /\ r.pages >= 1
                     /\ r.pages * pp >= r.total
                     /\ (r.pages > 1) => (r.pages - 1) * pp < r.total
                     /\ Len(r.items) = Cardinality({i \in 1..r.total :
                                                      lo < i /\ i <= lo + pp})
                     /\ \A k \in 1..Len(r.items) : r.items[k] = filtered[lo + k]
                     /\ (r.page > r.pages) =>
                            (r.items = <<>> /\ r.total = Len(filtered))

\* the second of two pages of the 40 records, 10 items under the default
\* per_page
C6_Witness ==
    /\ pc = "done"
    /\ args.q.per_page.t = "none"
    /\ result.v.total = 40
    /\ result.v.page = 2
    /\ result.v.pages = 2
    /\ Len(result.v.items) = 10

\* C7: the filtered sequence is the flattened records, in order, that satisfy
\* every specified filter (token_type by category or category prefix, status
\* exactly, nsfw by the note's marker, search as a case-insensitive substring
\* of the token); an unset filter passes all; total is its length, whatever
\* page and per_page are.
C7_FilterAndTotal ==
    pc = "done" =>
        LET r == result.v
            q == args.q
            flat == FlattenGroups(args.payload)
            lower(c) == IF c \in 65..90 THEN c + 32 ELSE c
            occurs(sub, text) ==
                \E k \in 0..(Len(text) - Len(sub)) :
                    \A j \in 1..Len(sub) : lower(text[k + j]) = lower(sub[j])
            ok(x) ==
                /\ q.token_type.t = "str" =>
                       /\ Len(q.token_type.s) <= Len(x.group)
                       /\ \A j \in 1..Len(q.token_type.s) :
                              x.group[j] = q.token_type.s[j]
                /\ q.status.t = "str" => x.rec.status = q.status.s
                /\ q.nsfw = PyStr(TRUE_S) => occurs(NsfwMarker, x.rec.note)
                /\ q.nsfw = PyStr(FALSE_S) => ~occurs(NsfwMarker, x.rec.note)
                /\ q.search.t = "str" => occurs(q.search.s, x.rec.token)
            matching == {i \in 1..Len(flat) : ok(flat[i])}
            all == get_tokens_api([q EXCEPT !.per_page = PyStr(ALL)], args.payload)
        IN  /\ r.total = Cardinality(matching)
            /\ all.total = r.total
            /\ Len(all.items) = r.total
            /\ \A k \in 1..Len(all.items) :
                  \E i \in matching :
                      /\ all.items[k] = flat[i]
                      /\ Cardinality({j \in matching : j < i}) = k - 1
            /\ \A k \in 1..Len(r.items) : ok(r.items[k])

\* all four filters set: of alpha, beta and gamma only alpha is returned
C7_Witness ==
    /\ pc = "done"
    /\ args.q.token_type.t = "str" /\ args.q.status.t = "str"
    /\ args.q.nsfw = PyStr(TRUE_S) /\ args.q.search.t = "str"
    /\ Len(args.payload.ssoBasic) = 2 /\ Len(args.payload.ssoSuper) = 1
    /\ args.payload.ssoBasic[2].status = EXPIRED
    /\ result.v.total = 1
    /\ result.v.pages = 1
    /\ Len(result.v.items) = 1
    /\ result.v.items[1].rec.token = <<97, 108, 112, 104, 97>>

====
